---------------------------- MODULE Spec2Model ----------------------------
(***************************************************************************)
(* Model of tutorials/03.auto-train-models.ipynb: a linear notebook that   *)
(* loads the digits dataset, shows a random sample, configures and submits *)
(* an automated-ML job, tabulates the child runs' metrics, registers the   *)
(* best model and shows its predictions on a random sample.                *)
(*                                                                         *)
(* Python names are state variables.  A name that is not bound yet holds   *)
(* Unbound (<<>>) and a bound name holds Bound(v) (<<v>>).  Python         *)
(* sequences are 0-based: At(s, k) is s[k].  A feature row of the dataset  *)
(* is represented by the number of the dataset row it is, so that "the     *)
(* label of this image" is something a formula can look up in the dataset. *)
(* Floating-point values are scaled integers (exit_score in 1/10000).      *)
(***************************************************************************)
EXTENDS Integers, Sequences, FiniteSets, TLC

VARIABLES
    pc,             \* the notebook's position (cell, or place inside a loop)
    ws,             \* Workspace.from_config()
    digits,         \* datasets.load_digits()
    X_digits,
    y_digits,
    count,          \* subplot counter of the sample display
    i,              \* loop variable of the sample display, counter of the test display
    s,              \* loop variable of the test display
    iter,           \* what the running for-loop has still to visit
    figure,         \* the current pyplot figure: the subplots drawn so far
    Automl_config,
    experiment,
    local_run,
    children,
    metricslist,
    rundata,
    best_run,
    fitted_model,
    model_id,
    sample_indices,
    test_samples,
    result,
    job,            \* the service's side of the submitted run
    submitted,      \* training jobs the service has received
    registry        \* models registered in the workspace

vars == <<pc, ws, digits, X_digits, y_digits, count, i, s, iter, figure,
          Automl_config, experiment, local_run, children, metricslist, rundata,
          best_run, fitted_model, model_id, sample_indices, test_samples,
          result, job, submitted, registry>>

notebookVars == <<ws, digits, X_digits, y_digits, count, i, s, iter, figure,
                  Automl_config, experiment, local_run, children, metricslist,
                  rundata, best_run, fitted_model, model_id, sample_indices,
                  test_samples, result>>

-----------------------------------------------------------------------------
(* Bounds.  HoldOut, sample_size and n stand for the notebook's 100, 30    *)
(* and 30; the dataset has at most MaxRows rows and NumClasses classes;    *)
(* the job runs at most MaxChildren iterations with scores 1..MaxScore.    *)

HoldOut == 1

sample_size == 2

n == 2

MaxRows == 4

NumClasses == 2

MaxChildren == 2

MaxScore == 2

-----------------------------------------------------------------------------
(* Python values *)

Unbound == <<>>

Bound(v) == <<v>>

IsBound(x) == x /= <<>>

Val(x) == x[1]

At(seq, k) == seq[k + 1]

Min(a, b) == IF a <= b THEN a ELSE b

Labels == 0 .. (NumClasses - 1)

\* seq[k:]
SliceFrom(seq, k) == SubSeq(seq, k + 1, Len(seq))

\* seq[:m] and seq[0:m]
SliceTo(seq, m) == SubSeq(seq, 1, Min(m, Len(seq)))

\* the arrays np.random.permutation(N) can return
Permutation(N) ==
    { p \in [1 .. N -> 0 .. (N - 1)] :
        \A a, b \in 1 .. N : a /= b => p[a] /= p[b] }

\* X[indices]: the rows of X at the given positions, in that order
Take(X, indices) == [k \in 1 .. Len(indices) |-> At(X, indices[k])]

\* what load_digits() can return: rows 0 .. NumRows-1, one label a row
Digits(NumRows) ==
    { [data |-> [r \in 1 .. NumRows |-> r - 1], target |-> t] :
        t \in [1 .. NumRows -> Labels] }

AllDigits == UNION { Digits(k) : k \in 0 .. MaxRows }

\* the datasets whose training part has one row, all labels but the last 0
FewDigits ==
    { d \in Digits(HoldOut + 1) :
        \A r \in 1 .. HoldOut : d.target[r] = 0 }

experiment_name == "automl-classifier"

project_folder == "./automl-classifier"

-----------------------------------------------------------------------------
(* The service's data: child runs, their properties and metrics *)

\* the strings properties['iteration'] can hold, as sequences of decimal digits
IterationStrings == { <<0>>, <<1>>, <<0, 1>> }

\* int(str)
RECURSIVE ParseInt(_)
ParseInt(str) ==
    IF str = <<>> THEN 0
    ELSE 10 * ParseInt(SubSeq(str, 1, Len(str) - 1)) + str[Len(str)]

Float(v) == [isfloat |-> TRUE, v |-> v]

NonFloat(v) == [isfloat |-> FALSE, v |-> v]

MetricNames == { "AUC_weighted", "accuracy", "confusion_matrix" }

\* what get_metrics() can return: two float scores and a metric that is no float
MetricDicts ==
    { [name \in MetricNames |->
         CASE name = "AUC_weighted" -> Float(a)
           [] name = "accuracy" -> Float(c)
           [] OTHER -> NonFloat(0)] :
        a \in 1 .. MaxScore, c \in 1 .. MaxScore }

AllRuns ==
    { [properties |-> [iteration |-> it], metrics |-> m] :
        it \in IterationStrings, m \in MetricDicts }

OneRun ==
    { r \in AllRuns :
        /\ r.properties.iteration = <<0>>
        /\ r.metrics["AUC_weighted"].v = 1
        /\ r.metrics["accuracy"].v = 1 }

\* a slip: the comprehension without its isinstance test
FloatMetrics_Unfiltered(metrics) ==
    [name \in DOMAIN metrics |-> metrics[name].v]

\* {k: v for k, v in run.get_metrics().items() if isinstance(v, float)}
FloatMetrics(metrics) ==
    [name \in { m \in DOMAIN metrics : metrics[m].isfloat } |-> metrics[name].v]

\* the dictionary the loop over children leaves in metricslist
RECURSIVE BuildMetricsList(_)
BuildMetricsList(runs) ==
    IF runs = <<>> THEN <<>>
    ELSE LET prev == BuildMetricsList(SubSeq(runs, 1, Len(runs) - 1))
             run == runs[Len(runs)]
             key == ParseInt(run.properties.iteration)
         IN  [k \in (DOMAIN prev) \cup {key} |->
                IF k = key THEN FloatMetrics(run.metrics) ELSE prev[k]]

NaN == -1

RECURSIVE Ascending(_)
Ascending(S) ==
    IF S = {} THEN <<>>
    ELSE LET least == CHOOSE x \in S : \A y \in S : x <= y
         IN  <<least>> \o Ascending(S \ {least})

\* pd.DataFrame(metricslist).sort_index(1): one column an iteration, the
\* columns in ascending order, one row a metric name, NaN where a column
\* has no such metric
DataFrameSorted(dict) ==
    LET index == UNION { DOMAIN dict[k] : k \in DOMAIN dict }
    IN  [columns |-> Ascending(DOMAIN dict),
         index   |-> index,
         values  |-> [c \in (index \X DOMAIN dict) |->
                        IF c[1] \in DOMAIN dict[c[2]] THEN dict[c[2]][c[1]] ELSE NaN]]

\* the child runs whose value of the metric is the highest
BestBy(runs, metric) ==
    { k \in 1 .. Len(runs) :
        \A j \in 1 .. Len(runs) : runs[j].metrics[metric].v <= runs[k].metrics[metric].v }

NoJob == [status |-> "none", config |-> Unbound, children |-> <<>>, best |-> 0]

-----------------------------------------------------------------------------
Init ==
    /\ pc = "setup"
    /\ ws = Unbound /\ digits = Unbound /\ X_digits = Unbound /\ y_digits = Unbound
    /\ count = Unbound /\ i = Unbound /\ s = Unbound
    /\ iter = <<>> /\ figure = <<>>
    /\ Automl_config = Unbound /\ experiment = Unbound /\ local_run = Unbound
    /\ children = Unbound /\ metricslist = Unbound /\ rundata = Unbound
    /\ best_run = Unbound /\ fitted_model = Unbound /\ model_id = Unbound
    /\ sample_indices = Unbound /\ test_samples = Unbound /\ result = Unbound
    /\ job = NoJob
    /\ submitted = 0
    /\ registry = <<>>

\* an uncaught exception: the cell stops where it is and nothing runs after it
Raise == pc' = "failed"

(* Configure workspace *)
Setup ==
    /\ pc = "setup"
    /\ ws' = Bound("ws")
    /\ pc' = "load"
    /\ UNCHANGED <<digits, X_digits, y_digits, count, i, s, iter, figure,
                   Automl_config, experiment, local_run, children, metricslist,
                   rundata, best_run, fitted_model, model_id, sample_indices,
                   test_samples, result, job, submitted, registry>>

\* a slip: the exception is swallowed and the next cell runs
SetupFail_Continues ==
    /\ pc = "setup"
    /\ pc' = "load"
    /\ UNCHANGED <<notebookVars, job, submitted, registry>>

\* Workspace.from_config() raises, e.g. for a missing config.json
SetupFail ==
    /\ pc = "setup"
    /\ Raise
    /\ UNCHANGED <<notebookVars, job, submitted, registry>>

\* a slip: the labels are not sliced as the rows are
Load_LabelsUnsliced(Datasets) ==
    /\ pc = "load"
    /\ \E d \in Datasets :
         /\ digits' = Bound(d)
         /\ X_digits' = Bound(SliceFrom(d.data, HoldOut))
         /\ y_digits' = Bound(d.target)
    /\ pc' = "display"
    /\ UNCHANGED <<ws, count, i, s, iter, figure,
                   Automl_config, experiment, local_run, children, metricslist,
                   rundata, best_run, fitted_model, model_id, sample_indices,
                   test_samples, result, job, submitted, registry>>

(* Explore data *)
Load(Datasets) ==
    /\ pc = "load"
    /\ \E d \in Datasets :
         /\ digits' = Bound(d)
         /\ X_digits' = Bound(SliceFrom(d.data, HoldOut))
         /\ y_digits' = Bound(SliceFrom(d.target, HoldOut))
    /\ pc' = "display"
    /\ UNCHANGED <<ws, count, i, s, iter, figure,
                   Automl_config, experiment, local_run, children, metricslist,
                   rundata, best_run, fitted_model, model_id, sample_indices,
                   test_samples, result, job, submitted, registry>>

\* a slip: the permutation is not cut to the sample size
DisplayBegin_WholePermutation ==
    /\ pc = "display"
    /\ count' = Bound(0)
    /\ figure' = <<>>
    /\ \E p \in Permutation(Len(Val(X_digits))) : iter' = p
    /\ pc' = "display_loop"
    /\ UNCHANGED <<ws, digits, X_digits, y_digits, i, s,
                   Automl_config, experiment, local_run, children, metricslist,
                   rundata, best_run, fitted_model, model_id, sample_indices,
                   test_samples, result, job, submitted, registry>>

(* Display some sample images: count = 0, plt.figure(), the for statement *)
DisplayBegin ==
    /\ pc = "display"
    /\ count' = Bound(0)
    /\ figure' = <<>>
    /\ \E p \in Permutation(Len(Val(X_digits))) : iter' = SliceTo(p, sample_size)
    /\ pc' = "display_loop"
    /\ UNCHANGED <<ws, digits, X_digits, y_digits, i, s,
                   Automl_config, experiment, local_run, children, metricslist,
                   rundata, best_run, fitted_model, model_id, sample_indices,
                   test_samples, result, job, submitted, registry>>

\* one pass through the loop body
DisplayStep ==
    /\ pc = "display_loop"
    /\ iter /= <<>>
    /\ LET row == Head(iter)
           position == Val(count) + 1
       IN  /\ i' = Bound(row)
           /\ count' = Bound(position)
           /\ figure' = Append(figure,
                  [nrows |-> 1, ncols |-> sample_size, index |-> position,
                   text |-> At(Val(y_digits), row), color |-> "black",
                   image |-> At(Val(X_digits), row), cmap |-> "Greys"])
    /\ iter' = Tail(iter)
    /\ UNCHANGED <<pc, ws, digits, X_digits, y_digits, s,
                   Automl_config, experiment, local_run, children, metricslist,
                   rundata, best_run, fitted_model, model_id, sample_indices,
                   test_samples, result, job, submitted, registry>>

\* plt.show() after the loop: the figure is shown and closed
DisplayShow ==
    /\ pc = "display_loop"
    /\ iter = <<>>
    /\ figure' = <<>>
    /\ pc' = "configure"
    /\ UNCHANGED <<ws, digits, X_digits, y_digits, count, i, s, iter,
                   Automl_config, experiment, local_run, children, metricslist,
                   rundata, best_run, fitted_model, model_id, sample_indices,
                   test_samples, result, job, submitted, registry>>

\* the keyword arguments of AutoMLConfig(...)
AutoMLConfig(X, y, path) ==
    [task |-> "classification",
     primary_metric |-> "AUC_weighted",
     max_time_sec |-> 12000,
     iterations |-> 20,
     n_cross_validations |-> 3,
     preprocess |-> FALSE,
     exit_score |-> 9985,
     blacklist_algos |-> <<"kNN", "LinearSVM">>,
     X |-> X,
     y |-> y,
     path |-> path]

(* Define settings for autogeneration and tuning *)
Configure ==
    /\ pc = "configure"
    /\ Automl_config' = Bound(AutoMLConfig(Val(X_digits), Val(y_digits), project_folder))
    /\ pc' = "submit"
    /\ UNCHANGED <<ws, digits, X_digits, y_digits, count, i, s, iter, figure,
                   experiment, local_run, children, metricslist,
                   rundata, best_run, fitted_model, model_id, sample_indices,
                   test_samples, result, job, submitted, registry>>

\* a slip: submit returns the run at once, the job still running
SubmitCall_NonBlocking ==
    /\ pc = "submit"
    /\ experiment' = Bound([workspace |-> ws, name |-> experiment_name])
    /\ job' = [status |-> "running", config |-> Automl_config,
               children |-> <<>>, best |-> 0]
    /\ submitted' = submitted + 1
    /\ local_run' = Bound("run")
    /\ pc' = "widget"
    /\ UNCHANGED <<ws, digits, X_digits, y_digits, count, i, s, iter, figure,
                   Automl_config, children, metricslist,
                   rundata, best_run, fitted_model, model_id, sample_indices,
                   test_samples, result, registry>>

(* Run the automatic classifier: Experiment(ws, experiment_name) and the    *)
(* call of experiment.submit, which blocks while the service runs the job  *)
SubmitCall ==
    /\ pc = "submit"
    /\ experiment' = Bound([workspace |-> ws, name |-> experiment_name])
    /\ job' = [status |-> "running", config |-> Automl_config,
               children |-> <<>>, best |-> 0]
    /\ submitted' = submitted + 1
    /\ pc' = "submitting"
    /\ UNCHANGED <<ws, digits, X_digits, y_digits, count, i, s, iter, figure,
                   Automl_config, local_run, children, metricslist,
                   rundata, best_run, fitted_model, model_id, sample_indices,
                   test_samples, result, registry>>

\* the service trains one more pipeline: one more child run
ServiceIteration(Runs) ==
    /\ pc = "submitting"
    /\ job.status = "running"
    /\ Len(job.children) < MaxChildren
    /\ \E r \in Runs : job' = [job EXCEPT !.children = Append(@, r)]
    /\ UNCHANGED <<pc, notebookVars, submitted, registry>>

\* the job ends, the service knows its best child run (by the primary
\* metric of the configuration it was given) and submit returns the run
SubmitReturn ==
    /\ pc = "submitting"
    /\ job.status = "running"
    /\ LET best == BestBy(job.children, Val(job.config).primary_metric)
       IN  \E b \in (IF best = {} THEN {0} ELSE best) :
             job' = [job EXCEPT !.status = "completed", !.best = b]
    /\ local_run' = Bound("run")
    /\ pc' = "widget"
    /\ UNCHANGED <<ws, digits, X_digits, y_digits, count, i, s, iter, figure,
                   Automl_config, experiment, children, metricslist,
                   rundata, best_run, fitted_model, model_id, sample_indices,
                   test_samples, result, submitted, registry>>

\* a slip: a failed submission is tried again
SubmitFail_Resubmits ==
    /\ pc = "submitting"
    /\ job.status = "running"
    /\ job' = [job EXCEPT !.status = "failed"]
    /\ pc' = "submit"
    /\ UNCHANGED <<notebookVars, submitted, registry>>

\* experiment.submit raises (quota, network): local_run is never bound
SubmitFail ==
    /\ pc = "submitting"
    /\ job.status = "running"
    /\ job' = [job EXCEPT !.status = "failed"]
    /\ Raise
    /\ UNCHANGED <<notebookVars, submitted, registry>>

(* Jupyter widget: RunDetails(local_run).show() *)
Widget ==
    /\ pc = "widget"
    /\ pc' = "metrics"
    /\ UNCHANGED <<notebookVars, job, submitted, registry>>

(* Retrieve all iterations *)
Metrics ==
    /\ pc = "metrics"
    /\ children' = Bound(job.children)
    /\ metricslist' = Bound(BuildMetricsList(job.children))
    /\ rundata' = Bound(DataFrameSorted(BuildMetricsList(job.children)))
    /\ pc' = "register"
    /\ UNCHANGED <<ws, digits, X_digits, y_digits, count, i, s, iter, figure,
                   Automl_config, experiment, local_run,
                   best_run, fitted_model, model_id, sample_indices,
                   test_samples, result, job, submitted, registry>>

(* Register the best model: get_output() and register_model() both take    *)
(* the run's best child, there being no iteration or metric argument       *)
Register ==
    /\ pc = "register"
    /\ job.best /= 0
    /\ best_run' = Bound(job.best)
    /\ fitted_model' = Bound([run |-> job.best])
    /\ registry' = Append(registry,
                     [model |-> [run |-> job.best],
                      description |-> "Automated Machine Learning Model",
                      tags |-> "None"])
    /\ model_id' = Bound(Len(registry) + 1)
    /\ pc' = "test"
    /\ UNCHANGED <<ws, digits, X_digits, y_digits, count, i, s, iter, figure,
                   Automl_config, experiment, local_run, children, metricslist,
                   rundata, sample_indices, test_samples, result, job, submitted>>

\* local_run.get_output() raises (always so when the run has no child)
GetOutputFail ==
    /\ pc = "register"
    /\ Raise
    /\ UNCHANGED <<notebookVars, job, submitted, registry>>

\* local_run.register_model() raises, after get_output() has returned
RegisterModelFail ==
    /\ pc = "register"
    /\ job.best /= 0
    /\ best_run' = Bound(job.best)
    /\ fitted_model' = Bound([run |-> job.best])
    /\ Raise
    /\ UNCHANGED <<ws, digits, X_digits, y_digits, count, i, s, iter, figure,
                   Automl_config, experiment, local_run, children, metricslist,
                   rundata, model_id, sample_indices, test_samples, result,
                   job, submitted, registry>>

(* Test the best model: the sample, the prediction (one label a sample),   *)
(* i = 0, plt.figure() and the for statement                               *)
TestBegin ==
    /\ pc = "test"
    /\ IsBound(fitted_model)
    /\ \E p \in Permutation(Len(Val(X_digits))) :
         LET indices == SliceTo(p, n)
         IN  /\ sample_indices' = Bound(indices)
             /\ test_samples' = Bound(Take(Val(X_digits), indices))
             /\ iter' = indices
             /\ \E predicted \in [1 .. Len(indices) -> Labels] :
                  result' = Bound(predicted)
    /\ i' = Bound(0)
    /\ figure' = <<>>
    /\ pc' = "test_loop"
    /\ UNCHANGED <<ws, digits, X_digits, y_digits, count, s,
                   Automl_config, experiment, local_run, children, metricslist,
                   rundata, best_run, fitted_model, model_id,
                   job, submitted, registry>>

\* fitted_model.predict raises: the sample is bound, result is not
PredictFail ==
    /\ pc = "test"
    /\ \E p \in Permutation(Len(Val(X_digits))) :
         LET indices == SliceTo(p, n)
         IN  /\ sample_indices' = Bound(indices)
             /\ test_samples' = Bound(Take(Val(X_digits), indices))
    /\ Raise
    /\ UNCHANGED <<ws, digits, X_digits, y_digits, count, i, s, iter, figure,
                   Automl_config, experiment, local_run, children, metricslist,
                   rundata, best_run, fitted_model, model_id, result,
                   job, submitted, registry>>

\* a slip: the true label is read at the position i, not at the row s
TestStep_LabelAtPosition ==
    /\ pc = "test_loop"
    /\ iter /= <<>>
    /\ LET row == Head(iter)
           misclassified == At(Val(y_digits), Val(i)) /= At(Val(result), Val(i))
       IN  /\ s' = Bound(row)
           /\ figure' = Append(figure,
                  [nrows |-> 1, ncols |-> n, index |-> Val(i) + 1,
                   text |-> At(Val(result), Val(i)),
                   color |-> IF misclassified THEN "red" ELSE "black",
                   image |-> At(Val(X_digits), row),
                   cmap |-> IF misclassified THEN "gray" ELSE "Greys"])
    /\ i' = Bound(Val(i) + 1)
    /\ iter' = Tail(iter)
    /\ UNCHANGED <<pc, ws, digits, X_digits, y_digits, count,
                   Automl_config, experiment, local_run, children, metricslist,
                   rundata, best_run, fitted_model, model_id, sample_indices,
                   test_samples, result, job, submitted, registry>>

\* one pass through the loop body
TestStep ==
    /\ pc = "test_loop"
    /\ iter /= <<>>
    /\ LET row == Head(iter)
           misclassified == At(Val(y_digits), row) /= At(Val(result), Val(i))
       IN  /\ s' = Bound(row)
           /\ figure' = Append(figure,
                  [nrows |-> 1, ncols |-> n, index |-> Val(i) + 1,
                   text |-> At(Val(result), Val(i)),
                   color |-> IF misclassified THEN "red" ELSE "black",
                   image |-> At(Val(X_digits), row),
                   cmap |-> IF misclassified THEN "gray" ELSE "Greys"])
    /\ i' = Bound(Val(i) + 1)
    /\ iter' = Tail(iter)
    /\ UNCHANGED <<pc, ws, digits, X_digits, y_digits, count,
                   Automl_config, experiment, local_run, children, metricslist,
                   rundata, best_run, fitted_model, model_id, sample_indices,
                   test_samples, result, job, submitted, registry>>

\* plt.show() after the loop: the notebook has run to its end
TestShow ==
    /\ pc = "test_loop"
    /\ iter = <<>>
    /\ figure' = <<>>
    /\ pc' = "done"
    /\ UNCHANGED <<ws, digits, X_digits, y_digits, count, i, s, iter,
                   Automl_config, experiment, local_run, children, metricslist,
                   rundata, best_run, fitted_model, model_id, sample_indices,
                   test_samples, result, job, submitted, registry>>

-----------------------------------------------------------------------------
\* every dataset, one kind of child run
Next ==
    \/ Setup \/ SetupFail
    \/ Load(AllDigits)
    \/ DisplayBegin \/ DisplayStep \/ DisplayShow
    \/ Configure
    \/ SubmitCall \/ ServiceIteration(OneRun) \/ SubmitReturn \/ SubmitFail
    \/ Widget \/ Metrics
    \/ Register \/ GetOutputFail \/ RegisterModelFail
    \/ TestBegin \/ PredictFail \/ TestStep \/ TestShow

Spec == Init /\ [][Next]_vars

\* every child run, few datasets
NextRuns ==
    \/ Setup \/ SetupFail
    \/ Load(FewDigits)
    \/ DisplayBegin \/ DisplayStep \/ DisplayShow
    \/ Configure
    \/ SubmitCall \/ ServiceIteration(AllRuns) \/ SubmitReturn \/ SubmitFail
    \/ Widget \/ Metrics
    \/ Register \/ GetOutputFail \/ RegisterModelFail
    \/ TestBegin \/ PredictFail \/ TestStep \/ TestShow

SpecRuns == Init /\ [][NextRuns]_vars

-----------------------------------------------------------------------------
(* What the claims speak of *)

Range(seq) == { seq[k] : k \in 1 .. Len(seq) }

\* the label the dataset gives the image (the image is its dataset row)
TrueLabel(image) == At(Val(digits).target, image)

\* the label predict returned for the sample
PredictionFor(image) ==
    LET k == CHOOSE j \in 1 .. Len(Val(test_samples)) : Val(test_samples)[j] = image
    IN  Val(result)[k]

\* the entry holds all and only the float-valued metrics of the child run
HoldsFloatsOf(entry, run) ==
    \A name \in MetricNames :
        /\ name \in DOMAIN entry <=>
             (name \in DOMAIN run.metrics /\ run.metrics[name].isfloat)
        /\ name \in DOMAIN entry => entry[name] = run.metrics[name].v

IterationOf(run) == ParseInt(run.properties.iteration)

Stage(position) ==
    CASE position = "setup" -> 1
      [] position \in { "load", "display", "display_loop" } -> 2
      [] position = "configure" -> 3
      [] position \in { "submit", "submitting" } -> 4
      [] position \in { "widget", "metrics", "register", "test", "test_loop", "done" } -> 5
      [] OTHER -> 6

\* the subplots of a display loop: positions 1, 2, ... inside the grid, one
\* distinct valid row of X_digits each, as many as the sample has in the end
LoopDraws(size) ==
    LET X == Val(X_digits)
        drawn == [k \in 1 .. Len(figure) |-> figure[k].image]
        visits == drawn \o [k \in 1 .. Len(iter) |-> At(X, iter[k])]
    IN  /\ Len(visits) = Min(size, Len(X))
        /\ \A k \in 1 .. Len(iter) : iter[k] \in 0 .. (Len(X) - 1)
        /\ \A a, b \in 1 .. Len(visits) : a /= b => visits[a] /= visits[b]
        /\ \A k \in 1 .. Len(figure) :
             /\ figure[k].index = k
             /\ figure[k].nrows = 1
             /\ figure[k].ncols = size
             /\ figure[k].index <= figure[k].nrows * figure[k].ncols
             /\ figure[k].image \in Range(X)

(* C1: the samples given to fitted_model.predict come from the first       *)
(* HoldOut rows of the dataset, which were kept out of training: none of   *)
(* them is a row of the X handed to AutoMLConfig.                          *)
C1_TestSamplesAreHeldOut ==
    (IsBound(test_samples) /\ IsBound(Automl_config)) =>
        \A row \in Range(Val(test_samples)) :
            /\ row < HoldOut
            /\ row \notin Range(Val(Automl_config).X)

\* the settings table of the tutorial, the metric under its displayed name
SettingsTable ==
    [primary_metric |-> "AUC Weighted",
     max_time_sec |-> 12000,
     iterations |-> 20,
     n_cross_validations |-> 3,
     preprocess |-> FALSE,
     exit_score |-> 9950,
     blacklist_algos |-> <<"kNN", "LinearSVM">>]

\* the name the table shows for a metric
Displayed(metric) == IF metric = "AUC_weighted" THEN "AUC Weighted" ELSE metric

(* C2: every setting of the submitted configuration has the value the      *)
(* settings table documents.                                               *)
C2_ConfigIsAsDocumented ==
    IsBound(Automl_config) =>
        LET c == Val(Automl_config)
        IN  /\ Displayed(c.primary_metric) = SettingsTable.primary_metric
            /\ c.max_time_sec = SettingsTable.max_time_sec
            /\ c.iterations = SettingsTable.iterations
            /\ c.n_cross_validations = SettingsTable.n_cross_validations
            /\ c.preprocess = SettingsTable.preprocess
            /\ c.exit_score = SettingsTable.exit_score
            /\ c.blacklist_algos = SettingsTable.blacklist_algos

(* C3: X_digits and y_digits are the same rows, HoldOut to the end, of the *)
(* dataset: as many labels as rows, y_digits[k] the label of X_digits[k],  *)
(* and the configuration carries these very arrays, whenever it is looked. *)
C3_RowsAligned ==
    IsBound(X_digits) =>
        LET X == Val(X_digits)
            y == Val(y_digits)
            d == Val(digits)
        IN  /\ Len(X) = Len(y)
            /\ Len(X) = (IF Len(d.data) > HoldOut THEN Len(d.data) - HoldOut ELSE 0)
            /\ \A k \in 0 .. (Len(X) - 1) :
                 /\ At(X, k) = At(d.data, HoldOut + k)
                 /\ At(y, k) = TrueLabel(At(X, k))
            /\ IsBound(Automl_config) =>
                 (Val(Automl_config).X = X /\ Val(Automl_config).y = y)
            /\ IsBound(test_samples) => Range(Val(test_samples)) \subseteq Range(X)

C3_Witness ==
    /\ pc = "test_loop"
    /\ Len(Val(X_digits)) >= 2
    /\ At(Val(y_digits), 0) /= At(Val(y_digits), 1)

C4_Order ==
    /\ (Stage(pc) \in 2 .. 5) => IsBound(ws)
    /\ (Stage(pc) \in 3 .. 5) => (IsBound(X_digits) /\ IsBound(y_digits))
    /\ (Stage(pc) \in 3 .. 4) => (iter = <<>> /\ figure = <<>> /\ IsBound(count))
    /\ (Stage(pc) \in 4 .. 5) => IsBound(Automl_config)
    /\ Stage(pc) = 5 => IsBound(local_run)
    /\ submitted > 0 =>
         (IsBound(ws) /\ IsBound(Automl_config) /\ job.config = Automl_config)
    /\ (\/ IsBound(children) \/ IsBound(metricslist) \/ IsBound(rundata)
        \/ IsBound(best_run) \/ IsBound(fitted_model) \/ registry /= <<>>
        \/ IsBound(sample_indices) \/ IsBound(result))
         => (IsBound(local_run) /\ job.status = "completed")

(* C4: the stages run in the order setup, data, configuration, submission, *)
(* results, each beginning when the one before it is complete: a job is    *)
(* submitted only with a workspace and a configuration, and metrics, best  *)
(* model, registration and prediction come after submit has returned.      *)
C4_StagesInOrder ==
    /\ []C4_Order
    /\ [][pc' = "failed" \/ Stage(pc') \in { Stage(pc), Stage(pc) + 1 }]_vars

C4_Witness ==
    /\ pc = "test"
    /\ IsBound(rundata)
    /\ Len(registry) = 1

C5_NothingAfterFailure ==
    /\ submitted > 0 => IsBound(ws)
    /\ ~IsBound(local_run) =>
         /\ ~IsBound(children) /\ ~IsBound(best_run) /\ ~IsBound(fitted_model)
         /\ registry = <<>> /\ ~IsBound(result)
    /\ job.status = "failed" => pc = "failed"
    /\ ~IsBound(best_run) => registry = <<>>
    /\ registry = <<>> => (~IsBound(test_samples) /\ ~IsBound(result))

(* C5: a failing stage stops the execution: nothing changes after the      *)
(* failure, no job is submitted without a workspace, and nothing is        *)
(* registered or predicted after a failed submission.                      *)
C5_FailureStops ==
    /\ []C5_NothingAfterFailure
    /\ [][pc = "failed" => (pc' = "failed" /\ UNCHANGED vars)]_vars

C5_Witness ==
    /\ pc = "failed"
    /\ job.status = "failed"
    /\ submitted = 1

(* C6: one execution submits one training job and registers one model:     *)
(* never a second submission or registration, both done once the notebook  *)
(* is through, and the notebook does nothing while submit blocks.          *)
C6_OneSubmissionOneRegistration ==
    /\ [](/\ submitted <= 1
          /\ Len(registry) <= 1
          /\ pc = "done" => (submitted = 1 /\ Len(registry) = 1)
          /\ job.status = "running" <=> pc = "submitting")
    /\ [][/\ submitted' >= submitted
          /\ Len(registry') >= Len(registry)
          /\ (pc = "submitting" /\ pc' = "submitting") => UNCHANGED notebookVars]_vars

C6_Witness ==
    /\ pc = "done"
    /\ submitted = 1
    /\ Len(registry) = 1

(* C7 as stated: every child run has its entry under its iteration number, *)
(* the entry is that child's float metrics, no entry without a child.      *)
C7_EveryChildKeepsItsEntry ==
    IsBound(metricslist) =>
        LET table == Val(metricslist)
            runs == Val(children)
        IN  /\ \A k \in 1 .. Len(runs) :
                 /\ IterationOf(runs[k]) \in DOMAIN table
                 /\ HoldsFloatsOf(table[IterationOf(runs[k])], runs[k])
            /\ \A key \in DOMAIN table :
                 \E k \in 1 .. Len(runs) : IterationOf(runs[k]) = key

(* C7, amended: the table has an entry for exactly the iteration numbers   *)
(* the child runs report; an entry holds all and only the float metrics of *)
(* the last child run returned with that number, so every child keeps its  *)
(* own entry when the numbers are pairwise distinct; rundata has the same  *)
(* values, one column an iteration, in ascending order.                    *)
C7_LastChildOfAnIteration ==
    IsBound(metricslist) =>
        LET table == Val(metricslist)
            runs == Val(children)
            frame == Val(rundata)
            last(key) == CHOOSE k \in 1 .. Len(runs) :
                            /\ IterationOf(runs[k]) = key
                            /\ \A j \in (k + 1) .. Len(runs) : IterationOf(runs[j]) /= key
        IN  /\ DOMAIN table = { IterationOf(runs[k]) : k \in 1 .. Len(runs) }
            /\ \A key \in DOMAIN table : HoldsFloatsOf(table[key], runs[last(key)])
            /\ (\A a, b \in 1 .. Len(runs) :
                    a /= b => IterationOf(runs[a]) /= IterationOf(runs[b]))
                 => \A k \in 1 .. Len(runs) :
                        HoldsFloatsOf(table[IterationOf(runs[k])], runs[k])
            /\ Range(frame.columns) = DOMAIN table
            /\ \A a, b \in 1 .. Len(frame.columns) :
                   a < b => frame.columns[a] < frame.columns[b]
            /\ \A key \in DOMAIN table : \A name \in frame.index :
                   frame.values[<<name, key>>] =
                       (IF name \in DOMAIN table[key] THEN table[key][name] ELSE NaN)

C7_Witness ==
    /\ IsBound(metricslist)
    /\ Len(Val(children)) = 2
    /\ Val(children)[1].properties.iteration /= Val(children)[2].properties.iteration
    /\ IterationOf(Val(children)[1]) = IterationOf(Val(children)[2])
    /\ Val(children)[1].metrics /= Val(children)[2].metrics

(* C8: in the test display a subplot is red on the inverse colour map just *)
(* when the prediction for the sample it shows differs from that sample's  *)
(* true label, and black on the normal map otherwise; the text is the      *)
(* prediction result[i] for the sample sample_indices[i] it shows.         *)
C8_RedIffMisclassified ==
    pc = "test_loop" =>
        \A k \in 1 .. Len(figure) :
            LET plot == figure[k]
            IN  /\ plot.image = At(Val(X_digits), At(Val(sample_indices), k - 1))
                /\ plot.image = Val(test_samples)[k]
                /\ plot.text = At(Val(result), k - 1)
                /\ plot.text = PredictionFor(plot.image)
                /\ plot.color \in { "red", "black" }
                /\ plot.cmap \in { "gray", "Greys" }
                /\ plot.color = "red" <=> plot.cmap = "gray"
                /\ plot.color = "red" <=> PredictionFor(plot.image) /= TrueLabel(plot.image)

C8_Witness ==
    /\ pc = "test_loop"
    /\ \E a, b \in 1 .. Len(figure) :
         /\ figure[a].color = "red"
         /\ figure[b].color = "black"
         /\ figure[a].text = figure[b].text

(* C9: the registered model is the model of the child run with the highest *)
(* accuracy of the run, and it is fitted_model.                            *)
C9_RegisteredIsMostAccurate ==
    registry /= <<>> =>
        /\ registry[1].model.run \in BestBy(job.children, "accuracy")
        /\ fitted_model = Bound(registry[1].model)

(* C10: each display loop draws min(size, rows) subplots, size being       *)
(* sample_size and n: one pass for each of that many pairwise distinct     *)
(* valid rows of X_digits, at positions 1, 2, ... in order, never beyond   *)
(* the grid (1, size); the first loop writes the row's own label.          *)
C10_LoopsDrawTheSample ==
    /\ pc = "display_loop" =>
         /\ LoopDraws(sample_size)
         /\ Val(count) = Len(figure)
         /\ \A k \in 1 .. Len(figure) : figure[k].text = TrueLabel(figure[k].image)
         /\ Len(figure) > 0 =>
              figure[Len(figure)].image = At(Val(X_digits), Val(i))
    /\ pc = "test_loop" =>
         /\ LoopDraws(n)
         /\ Val(i) = Len(figure)

C10_Witness ==
    /\ pc = "display_loop"
    /\ iter = <<>>
    /\ Len(figure) = sample_size
    /\ Len(Val(X_digits)) > sample_size

====
